---- MODULE Spec2Model ----
(***************************************************************************)
(* Model of ai_mail_sorter (src/app.py): mailbox discovery, the label      *)
(* adapter around the zero-shot classifier, and the traversal of the inbox *)
(* with the copy / store +Deleted / expunge relocation of each message.    *)
(*                                                                         *)
(* Strings are sequences of one-character strings, so that prefix          *)
(* stripping, substring filtering and quote parsing are computed as the    *)
(* Python code computes them.                                              *)
(***************************************************************************)
EXTENDS Integers, Sequences, FiniteSets, TLC

VARIABLES
    pc,         \* position of main(): the next statement to run
    listing,    \* raw entries returned by mail.list()
    prefix,     \* args.prefix
    dry_run,    \* args.dry_run
    inbox,      \* UIDs of the messages held by the INBOX mailbox on the server
    flagged,    \* UIDs of INBOX messages carrying the \Deleted flag
    copies,     \* <<mailbox, uid>>: mailbox holds a copy of inbox message uid
    state,      \* imaplib connection state: "AUTH" or "SELECTED"
    labels,     \* main(): labels
    uids,       \* main(): uids, the parsed search result
    i,          \* index in uids of the message of the current loop iteration
    top,        \* per UID, index in modified_labels of the oracle's top label
    target,     \* per UID, main(): target_folder of its iteration
    outcome,    \* per UID, how its loop iteration ended
    calls,      \* commands sent to the server, in order, with their status
    out,        \* lines printed
    err,        \* the exception that ended the run, if any
    msg,        \* main(): parsed_email, where the content extraction is modelled
    extracted,  \* what extract_text_from_part returned at src/app.py:161
    content     \* main(): content, the text handed to classify_email

vars == <<pc, listing, prefix, dry_run, inbox, flagged, copies, state, labels,
          uids, i, top, target, outcome, calls, out, err, msg, extracted,
          content>>

----------------------------------------------------------------------------
(* Bounds *)

MaxUids == 2        \* messages in the inbox at the start of a run
MaxListing == 2     \* raw entries in the LIST response
MaxParts == 2       \* parts directly inside one multipart container

----------------------------------------------------------------------------
(* Strings *)

NoneVal == <<"<None>">>

QUOTE == "\""

Lower(c) ==
    CASE c = "I" -> "i" [] c = "N" -> "n" [] c = "B" -> "b" [] c = "O" -> "o"
      [] c = "X" -> "x" [] c = "S" -> "s" [] c = "A" -> "a" [] c = "L" -> "l"
      [] OTHER -> c

LowerStr(s) == [k \in 1..Len(s) |-> Lower(s[k])]

StartsWith(s, p) == Len(p) <= Len(s) /\ SubSeq(s, 1, Len(p)) = p

Contains(s, sub) ==
    \E k \in 1..(Len(s) - Len(sub) + 1) : SubSeq(s, k, k + Len(sub) - 1) = sub

InSeq(x, seq) == \E k \in 1..Len(seq) : seq[k] = x

s_other == <<"o", "t", "h", "e", "r">>
s_INBOX == <<"I", "N", "B", "O", "X">>
s_inbox == <<"i", "n", "b", "o", "x">>
s_receipts == <<"r", "e", "c", "e", "i", "p", "t", "s">>
s_Sent == <<"S", "e", "n", "t">>
s_dot == <<".">>
s_my_mail == <<"m", "y", " ", "m", "a", "i", "l">>
s_Archive24 == <<"A", "r", "c", "h", "i", "v", "e", "2", "4">>
s_cabin == <<"c", "a", "b", "i", "n">>
s_news == <<"n", "e", "w", "s">>

ReservedWords ==
    { <<"a", "r", "c", "h", "i", "v", "e">>,
      <<"s", "e", "n", "t">>,
      <<"d", "r", "a", "f", "t", "s">>,
      <<"t", "r", "a", "s", "h">>,
      <<"b", "i", "n">>,
      <<"d", "e", "l", "e", "t", "e", "d">>,
      <<"f", "l", "a", "g", "g", "e", "d">> }

----------------------------------------------------------------------------
(* The mail store's LIST response *)

Quoted(n) == <<QUOTE>> \o n \o <<QUOTE>>

\* One LIST line: (attributes) "delimiter" name
Entry(nameToken) == <<"(", ")", " ", QUOTE, ".", QUOTE, " ">> \o nameToken

RawEntries ==
    << Entry(Quoted(s_INBOX)),
       Entry(Quoted(s_INBOX \o s_dot \o s_other)),
       Entry(Quoted(s_INBOX \o s_dot \o s_receipts)),
       Entry(Quoted(s_Sent)),
       Entry(Quoted(s_my_mail)),
       Entry(Quoted(s_other)),
       Entry(s_receipts) >>

\* The LIST answers of at most n lines, the same line possibly twice. The
\* lines come in the order of RawEntries: no operation depends on the order
\* of the lines, only the order of the labels follows it.
ListingsOf(pool, n) ==
    { [k \in 1..Len(f) |-> pool[f[k]]] :
        f \in { g \in UNION { [1..m -> 1..Len(pool)] : m \in 0..n } :
                   \A k \in 1..(Len(g) - 1) : g[k] <= g[k + 1] } }

Listings(n) == ListingsOf(RawEntries, n)

\* More LIST lines, for the discovery taken alone: reserved words inside a
\* longer name, a lower-case hierarchy, an unquoted reserved name, and a
\* line without any double quote.
DiscoveryEntries ==
    RawEntries \o
    << Entry(Quoted(s_Archive24)),
       Entry(Quoted(s_cabin)),
       Entry(Quoted(s_inbox \o s_dot \o s_news)),
       Entry(s_Sent),
       <<"(", ")", " ", "N", "I", "L", " ">> \o s_INBOX >>

Prefixes == { <<>>, s_INBOX \o s_dot, s_inbox \o s_dot, <<"o">> }

\* The name the server gives the mailbox of a LIST line: its last token,
\* a quoted string or an atom.
RECURSIVE LastSpace(_, _)
LastSpace(s, k) ==
    IF k = 0 THEN 0 ELSE IF s[k] = " " THEN k ELSE LastSpace(s, k - 1)

ServerName(raw) ==
    IF raw[Len(raw)] = QUOTE
    THEN LET open == CHOOSE k \in 1..(Len(raw) - 1) :
                        /\ raw[k] = QUOTE
                        /\ \A j \in (k + 1)..(Len(raw) - 1) : raw[j] # QUOTE
         IN  SubSeq(raw, open + 1, Len(raw) - 1)
    ELSE SubSeq(raw, LastSpace(raw, Len(raw)) + 1, Len(raw))

ServerMailboxes == { ServerName(listing[k]) : k \in 1..Len(listing) } \cup { s_INBOX }

----------------------------------------------------------------------------
(* parse_mailbox_name, get_mailboxes *)

QuoteIndices(s) == { k \in 1..Len(s) : s[k] = QUOTE }

SetMax(S) == CHOOSE m \in S : \A x \in S : x <= m

\* The text between the last two double quotes; None with fewer than two.
parse_mailbox_name(mailbox_info) ==
    LET quote_indices == QuoteIndices(mailbox_info)
    IN  IF Cardinality(quote_indices) < 2
        THEN NoneVal
        ELSE LET last == SetMax(quote_indices)
                 prev == SetMax(quote_indices \ {last})
             IN  SubSeq(mailbox_info, prev + 1, last - 1)

\* The name is not lower-cased before the words are looked for.
IsReservedCaseSensitive(mailbox_name) ==
    \E w \in ReservedWords : Contains(mailbox_name, w)

\* src/app.py:116-126
IsReserved(mailbox_name) ==
    \E w \in ReservedWords : Contains(LowerStr(mailbox_name), w)

\* src/app.py:127
FailsPrefix(mailbox_name, pfx) ==
    pfx # <<>> /\ ~StartsWith(LowerStr(mailbox_name), LowerStr(pfx))

RECURSIVE FilterListing(_, _)
FilterListing(mailbox_list, pfx) ==
    IF mailbox_list = <<>>
    THEN <<>>
    ELSE LET mailbox_name == parse_mailbox_name(Head(mailbox_list))
             rest == FilterListing(Tail(mailbox_list), pfx)
         IN  IF mailbox_name = NoneVal \/ mailbox_name = <<>> THEN rest
             ELSE IF IsReserved(mailbox_name) THEN rest
             ELSE IF FailsPrefix(mailbox_name, pfx) THEN rest
             ELSE <<mailbox_name>> \o rest

\* The check of the filtered list is missing.
DiscoveryNeverRaises(mailboxes) == FALSE

\* src/app.py:132: the discovery raises when nothing is left
DiscoveryRaises(mailboxes) == Len(mailboxes) = 0

----------------------------------------------------------------------------
(* classify_email *)

modified_labels(lbls, pfx) ==
    [j \in 1..Len(lbls) |->
        IF StartsWith(lbls[j], pfx)
        THEN SubSeq(lbls[j], Len(pfx) + 1, Len(lbls[j]))
        ELSE lbls[j]]

\* The folder chosen when the oracle ranks candidate number k first.
classify_email(lbls, pfx, k) ==
    LET label == modified_labels(lbls, pfx)[k]
    IN  IF label = s_other THEN s_INBOX
        ELSE IF InSeq(pfx \o label, lbls) THEN pfx \o label
        ELSE label

----------------------------------------------------------------------------
(* Messages and extract_text_from_part *)

\* A byte that is no valid UTF-8
BAD == "<ff>"

\* bytes.decode("utf-8", errors="ignore"): the invalid bytes are dropped
Decode(bytes) == SelectSeq(bytes, LAMBDA b : b # BAD)

Part(ctype, attach, multipart, body, parts) ==
    [ctype |-> ctype, attach |-> attach, multipart |-> multipart,
     body |-> body, parts |-> parts]

\* Parts whose payload is bytes: text, an image, a text attachment, and a
\* multipart type without boundary, which the parser leaves as one payload.
Leaves ==
    { Part("text/plain", FALSE, FALSE, <<"a">>, <<>>),
      Part("text/plain", FALSE, FALSE, <<>>, <<>>),
      Part("text/html", FALSE, FALSE, <<"b", BAD>>, <<>>),
      Part("text/html", FALSE, FALSE, <<BAD>>, <<>>),
      Part("image/png", FALSE, FALSE, <<"c">>, <<>>),
      Part("text/plain", TRUE, FALSE, <<"d">>, <<>>),
      Part("multipart/mixed", FALSE, FALSE, <<"e">>, <<>>) }

Container(attach, parts) == Part("multipart/mixed", attach, TRUE, <<>>, parts)

\* Containers of 1..MaxParts leaves
Flat ==
    { Container(a, ps) :
        a \in BOOLEAN, ps \in UNION { [1..m -> Leaves] : m \in 1..MaxParts } }

\* Containers holding a container, alone or next to a leaf
Nested ==
    { Container(a, ps) :
        a \in BOOLEAN,
        ps \in UNION { { <<c>> } \cup { <<l, c>> : l \in Leaves }
                                \cup { <<c, l>> : l \in Leaves } : c \in Flat } }

Subjects == { NoneVal, <<>>, <<"s">> }

Messages == [subject : Subjects, root : Leaves \cup Flat \cup Nested]

\* The disposition is not looked at.
IsAttachmentNever(part) == FALSE

\* src/app.py:46-49
IsAttachment(part) == part.attach

\* src/app.py:53-56
IsTextType(content_type) == content_type \in {"text/plain", "text/html"}

RECURSIVE extract_text_from_part(_)
RECURSIVE ExtractSubparts(_, _)

\* src/app.py:60-63: the loop over the subparts from number k on
ExtractSubparts(subparts, k) ==
    IF k > Len(subparts) THEN <<>>
    ELSE extract_text_from_part(subparts[k]) \o ExtractSubparts(subparts, k + 1)

extract_text_from_part(part) ==
    IF IsAttachment(part) THEN <<>>
    ELSE IF IsTextType(part.ctype) THEN Decode(part.body)
    ELSE IF part.multipart THEN ExtractSubparts(part.parts, 1)
    ELSE <<>>

----------------------------------------------------------------------------
(* move_email helpers *)

\* src/app.py:76-77
WireName(destination_folder) ==
    IF InSeq(" ", destination_folder) THEN Quoted(destination_folder)
    ELSE destination_folder

\* The mailbox a wire name addresses on the server.
Unquote(w) ==
    IF Len(w) >= 2 /\ w[1] = QUOTE /\ w[Len(w)] = QUOTE
    THEN SubSeq(w, 2, Len(w) - 1) ELSE w

\* The copy status is not looked at.
CopyAcceptedAlways(result) == TRUE

\* src/app.py:81: the copy status sends move_email on to STORE
CopyAccepted(result) == result = "OK"

\* The dry_run flag is not looked at.
MoveIsDryIgnored(flag) == FALSE

\* src/app.py:69: dry_run returns before any command
MoveIsDry(flag) == flag

\* The sentinel is not looked at.
KeepInInboxNever(target_folder) == FALSE

\* src/app.py:165: the sentinel keeps the message in the inbox
KeepInInbox(target_folder) == target_folder = s_INBOX

\* src/app.py:145: the search status ends the run
SearchFailed(status) == status # "OK"

----------------------------------------------------------------------------
(* Logs *)

Call(cmd, uid, arg, res) == [cmd |-> cmd, uid |-> uid, arg |-> arg, res |-> res]

Line(kind, uid, src, dst) == [kind |-> kind, uid |-> uid, src |-> src, dst |-> dst]

Status == {"OK", "NO"}

RECURSIVE SortedSeq(_)
SortedSeq(S) ==
    IF S = {} THEN <<>>
    ELSE LET m == CHOOSE x \in S : \A y \in S : x <= y
         IN  <<m>> \o SortedSeq(S \ {m})

\* The bytes of a SEARCH answer: the UIDs in ascending order, SP between
\* two of them; empty for an empty mailbox.
SP == 0

RECURSIVE JoinUids(_)
JoinUids(seq) ==
    IF Len(seq) <= 1 THEN seq
    ELSE <<Head(seq), SP>> \o JoinUids(Tail(seq))

SearchData(box) == JoinUids(SortedSeq(box))

\* bytes.split(b" "): an empty answer gives one empty item.
SplitOnSpace(data) ==
    IF data = <<>> THEN <<0>> ELSE SelectSeq(data, LAMBDA t : t # SP)

\* src/app.py:150: uid_list[0].split()
SplitUids(data) == SelectSeq(data, LAMBDA t : t # SP)

\* The loop passes over the UID after the one it handled.
NextIndexSkipping(k) == k + 2

\* src/app.py:152: the for loop moves on to the next UID
NextIndex(k) == k + 1

\* The destination is selected in place of the source.
SelectDestination(source_folder, destination_folder) == destination_folder

\* src/app.py:74: move_email selects the source folder
SelectedFolder(source_folder, destination_folder) == source_folder

\* EXPUNGE empties the mailbox.
ExpungedAll(box, deleted) == {}

\* src/app.py:88: EXPUNGE removes the messages flagged \Deleted
Expunged(box, deleted) == box \ deleted

cur == uids[i]

----------------------------------------------------------------------------
(* The run: main() *)

Init ==
    /\ pc = "get_mailboxes"
    /\ listing \in Listings(MaxListing)
    /\ prefix \in Prefixes
    /\ dry_run \in BOOLEAN
    /\ \E n \in 0..MaxUids : inbox = 1..n
    /\ flagged \in SUBSET inbox
    /\ copies = {}
    /\ state = "AUTH"
    /\ labels = <<>>
    /\ uids = <<>>
    /\ i = 0
    /\ top = [u \in 1..MaxUids |-> 0]
    /\ target = [u \in 1..MaxUids |-> NoneVal]
    /\ outcome = [u \in 1..MaxUids |-> "none"]
    /\ calls = <<>>
    /\ out = <<>>
    /\ err = "none"
    /\ msg = NoneVal
    /\ extracted = NoneVal
    /\ content = NoneVal

Raise(e) == pc' = "raised" /\ err' = e

\* src/app.py:141 with get_mailboxes (106-134). A LIST answer without any
\* line reaches the loop as [None], and None.decode() raises.
GetMailboxes ==
    /\ pc = "get_mailboxes"
    /\ calls' = Append(calls, Call("LIST", 0, <<>>, "OK"))
    /\ IF listing = <<>>
       THEN /\ Raise("AttributeError")
            /\ UNCHANGED <<labels, out>>
       ELSE LET mailboxes == FilterListing(listing, prefix)
            IN  /\ out' = Append(out, Line("Found", Len(mailboxes), <<>>, <<>>))
                /\ IF DiscoveryRaises(mailboxes)
                   THEN Raise("NoMailboxesFound") /\ UNCHANGED labels
                   ELSE /\ labels' = mailboxes \o <<s_other>>
                        /\ pc' = "select"
                        /\ UNCHANGED err
    /\ UNCHANGED <<msg, extracted, content, listing, prefix, dry_run, inbox, flagged, copies, state,
                   uids, i, top, target, outcome>>

\* src/app.py:143: the status of select is not looked at
SelectInbox ==
    /\ pc = "select"
    /\ \E r \in Status :
        /\ calls' = Append(calls, Call("SELECT", 0, s_inbox, r))
        /\ state' = IF r = "OK" THEN "SELECTED" ELSE "AUTH"
    /\ pc' = "search"
    /\ UNCHANGED <<msg, extracted, content, listing, prefix, dry_run, inbox, flagged, copies, labels,
                   uids, i, top, target, outcome, out, err>>

\* src/app.py:144-150. imaplib refuses a UID command outside SELECTED.
Search ==
    /\ pc = "search"
    /\ IF state # "SELECTED"
       THEN /\ Raise("imaplib.error")
            /\ UNCHANGED <<calls, uids, i, out>>
       ELSE \E status \in Status :
            /\ calls' = Append(calls, Call("SEARCH", 0, <<>>, status))
            /\ IF SearchFailed(status)
               THEN /\ out' = Append(out, Line("NoEmailsFound", 0, <<>>, <<>>))
                    /\ pc' = "done"
                    /\ UNCHANGED <<uids, i, err>>
               ELSE /\ uids' = SplitUids(SearchData(inbox))
                    /\ i' = 1
                    /\ pc' = "fetch"
                    /\ UNCHANGED <<out, err>>
    /\ UNCHANGED <<msg, extracted, content, listing, prefix, dry_run, inbox, flagged, copies, state,
                   labels, top, target, outcome>>

\* src/app.py:152-156: a fetch that brings no message makes msg_data[0][1]
\* or the parse raise.
Fetch ==
    /\ pc = "fetch"
    /\ i <= Len(uids)
    /\ out' = Append(out, Line("Processing", cur, <<>>, <<>>))
    /\ \E r \in Status :
        /\ calls' = Append(calls, Call("FETCH", cur, <<>>, r))
        /\ IF r = "OK" /\ cur \in inbox
           THEN pc' = "classify" /\ UNCHANGED <<err, outcome>>
           ELSE /\ Raise("TypeError")
                /\ outcome' = [outcome EXCEPT ![cur] = "FetchError"]
    /\ UNCHANGED <<msg, extracted, content, listing, prefix, dry_run, inbox, flagged, copies, state,
                   labels, uids, i, top, target>>

\* src/app.py:157-167: extraction and the oracle either raise or rank one
\* candidate first.
Classify ==
    /\ pc = "classify"
    /\ \/ /\ Raise("ClassificationError")
          /\ outcome' = [outcome EXCEPT ![cur] = "ClassificationError"]
          /\ out' = IF dry_run THEN Append(out, Line("Subject", cur, <<>>, <<>>))
                    ELSE out
          /\ UNCHANGED <<top, target, i>>
       \/ \E k \in 1..Len(labels) :
            LET target_folder == classify_email(labels, prefix, k)
                shown == IF dry_run
                         THEN Append(out, Line("Subject", cur, <<>>, <<>>))
                         ELSE out
            IN  /\ top' = [top EXCEPT ![cur] = k]
                /\ target' = [target EXCEPT ![cur] = target_folder]
                /\ IF KeepInInbox(target_folder)
                   THEN /\ outcome' = [outcome EXCEPT ![cur] = "Skipped"]
                        /\ i' = NextIndex(i)
                        /\ pc' = "fetch"
                        /\ out' = shown
                   ELSE /\ out' = Append(shown, Line("Moving", cur, <<>>, target_folder))
                        /\ pc' = "move"
                        /\ UNCHANGED <<outcome, i>>
                /\ UNCHANGED err
    /\ UNCHANGED <<msg, extracted, content, listing, prefix, dry_run, inbox, flagged, copies, state,
                   labels, uids, calls>>

\* src/app.py:69-71
MoveDryRun ==
    /\ pc = "move"
    /\ MoveIsDry(dry_run)
    /\ out' = Append(out, Line("DryRun", cur, s_INBOX, target[cur]))
    /\ outcome' = [outcome EXCEPT ![cur] = "DryRun"]
    /\ i' = NextIndex(i)
    /\ pc' = "fetch"
    /\ UNCHANGED <<msg, extracted, content, listing, prefix, dry_run, inbox, flagged, copies, state,
                   labels, uids, top, target, calls, err>>

\* src/app.py:74
MoveSelect ==
    /\ pc = "move"
    /\ ~MoveIsDry(dry_run)
    /\ \E r \in Status :
        /\ calls' = Append(calls, Call("SELECT", cur, SelectedFolder(s_INBOX, target[cur]), r))
        /\ state' = IF r = "OK" THEN "SELECTED" ELSE "AUTH"
    /\ pc' = "copy"
    /\ UNCHANGED <<msg, extracted, content, listing, prefix, dry_run, inbox, flagged, copies, labels,
                   uids, i, top, target, outcome, out, err>>

\* src/app.py:76-82. The server answers OK only when it made the copy.
Copy ==
    /\ pc = "copy"
    /\ IF state # "SELECTED"
       THEN /\ Raise("imaplib.error")
            /\ outcome' = [outcome EXCEPT ![cur] = "SelectFailed"]
            /\ UNCHANGED <<calls, copies>>
       ELSE \E result \in Status :
            LET destination_folder == WireName(target[cur])
                mailbox == Unquote(destination_folder)
            IN  /\ result = "OK" => (mailbox \in ServerMailboxes /\ cur \in inbox)
                /\ calls' = Append(calls, Call("COPY", cur, destination_folder, result))
                /\ copies' = IF result = "OK" THEN copies \cup {<<mailbox, cur>>}
                             ELSE copies
                /\ IF CopyAccepted(result)
                   THEN pc' = "store" /\ UNCHANGED <<err, outcome>>
                   ELSE /\ Raise("CopyFailed")
                        /\ outcome' = [outcome EXCEPT ![cur] = "CopyFailed"]
    /\ UNCHANGED <<msg, extracted, content, listing, prefix, dry_run, inbox, flagged, state, labels,
                   uids, i, top, target, out>>

\* src/app.py:85: the status of STORE is not looked at
Store ==
    /\ pc = "store"
    /\ \E r \in Status :
        /\ calls' = Append(calls, Call("STORE", cur, <<>>, r))
        /\ flagged' = IF r = "OK" /\ cur \in inbox THEN flagged \cup {cur}
                      ELSE flagged
    /\ pc' = "expunge"
    /\ UNCHANGED <<msg, extracted, content, listing, prefix, dry_run, inbox, copies, state, labels,
                   uids, i, top, target, outcome, out, err>>

\* src/app.py:88: expunge removes every message flagged \Deleted; its status
\* is not looked at and move_email returns normally.
Expunge ==
    /\ pc = "expunge"
    /\ \E r \in Status :
        /\ calls' = Append(calls, Call("EXPUNGE", cur, <<>>, r))
        /\ inbox' = IF r = "OK" THEN Expunged(inbox, flagged) ELSE inbox
        /\ flagged' = IF r = "OK" THEN {} ELSE flagged
    /\ outcome' = [outcome EXCEPT ![cur] = "Moved"]
    /\ i' = NextIndex(i)
    /\ pc' = "fetch"
    /\ UNCHANGED <<msg, extracted, content, listing, prefix, dry_run, copies, state, labels, uids,
                   top, target, out, err>>

\* src/app.py:170
Logout ==
    /\ pc = "fetch"
    /\ i > Len(uids)
    /\ calls' = Append(calls, Call("LOGOUT", 0, <<>>, "OK"))
    /\ state' = "LOGOUT"
    /\ pc' = "done"
    /\ UNCHANGED <<msg, extracted, content, listing, prefix, dry_run, inbox, flagged, copies, labels,
                   uids, i, top, target, outcome, out, err>>

Next ==
    \/ GetMailboxes
    \/ SelectInbox
    \/ Search
    \/ Fetch
    \/ Classify
    \/ MoveDryRun
    \/ MoveSelect
    \/ Copy
    \/ Store
    \/ Expunge
    \/ Logout

Spec == Init /\ [][Next]_vars

----------------------------------------------------------------------------
(* Discovery and the label adapter taken alone: get_mailboxes on a wider    *)
(* choice of LIST answers, then classify_email for any top candidate.       *)

InitLabels ==
    /\ pc = "get_mailboxes"
    /\ listing \in ListingsOf(DiscoveryEntries, MaxListing)
    /\ prefix \in Prefixes
    /\ dry_run = TRUE
    /\ inbox = {1}
    /\ flagged = {}
    /\ copies = {}
    /\ state = "AUTH"
    /\ labels = <<>>
    /\ uids = <<1>>
    /\ i = 1
    /\ top = [u \in 1..MaxUids |-> 0]
    /\ target = [u \in 1..MaxUids |-> NoneVal]
    /\ outcome = [u \in 1..MaxUids |-> "none"]
    /\ calls = <<>>
    /\ out = <<>>
    /\ err = "none"
    /\ msg = NoneVal
    /\ extracted = NoneVal
    /\ content = NoneVal

\* src/app.py:164: classify_email on the discovered labels, the oracle
\* ranking candidate k first
ChooseFolder ==
    /\ pc = "select"
    /\ \E k \in 1..Len(labels) :
        /\ top' = [top EXCEPT ![cur] = k]
        /\ target' = [target EXCEPT ![cur] = classify_email(labels, prefix, k)]
    /\ pc' = "chosen"
    /\ UNCHANGED <<msg, extracted, content, listing, prefix, dry_run, inbox, flagged, copies, state,
                   labels, uids, i, outcome, calls, out, err>>

NextLabels == GetMailboxes \/ ChooseFolder

SpecLabels == InitLabels /\ [][NextLabels]_vars

----------------------------------------------------------------------------
(* The content extraction taken alone: lines 156-163 of main() on one       *)
(* fetched message.                                                         *)

InitExtract ==
    /\ pc = "parsed"
    /\ msg \in Messages
    /\ extracted = NoneVal
    /\ content = NoneVal
    /\ listing = <<>>
    /\ prefix = <<>>
    /\ dry_run = FALSE
    /\ inbox = {1}
    /\ flagged = {}
    /\ copies = {}
    /\ state = "SELECTED"
    /\ labels = <<>>
    /\ uids = <<1>>
    /\ i = 1
    /\ top = [u \in 1..MaxUids |-> 0]
    /\ target = [u \in 1..MaxUids |-> NoneVal]
    /\ outcome = [u \in 1..MaxUids |-> "none"]
    /\ calls = <<>>
    /\ out = <<>>
    /\ err = "none"

\* src/app.py:159-163. get_payload(decode=True) is None for a multipart
\* message, and None.decode raises.
ExtractContent ==
    /\ pc = "parsed"
    /\ LET parsed_email == msg.root
           text == IF parsed_email.multipart
                   THEN extract_text_from_part(parsed_email)
                   ELSE msg.subject
       IN  /\ extracted' = IF parsed_email.multipart THEN text ELSE NoneVal
           /\ IF text = <<>>
              THEN IF parsed_email.multipart
                   THEN Raise("AttributeError") /\ UNCHANGED content
                   ELSE /\ content' = Decode(parsed_email.body)
                        /\ pc' = "classify"
                        /\ UNCHANGED err
              ELSE /\ content' = text
                   /\ pc' = "classify"
                   /\ UNCHANGED err
    /\ UNCHANGED <<msg, listing, prefix, dry_run, inbox, flagged, copies, state,
                   labels, uids, i, top, target, outcome, calls, out>>

NextExtract == ExtractContent

SpecExtract == InitExtract /\ [][NextExtract]_vars

----------------------------------------------------------------------------
(* Vocabulary of the properties *)

UIDs == 1..MaxUids

Mutating == {"COPY", "STORE", "EXPUNGE", "APPEND"}

Issued(u, cmds) == \E k \in 1..Len(calls) : calls[k].uid = u /\ calls[k].cmd \in cmds

IssuedWith(u, cmds, res) ==
    \E k \in 1..Len(calls) :
        calls[k].uid = u /\ calls[k].cmd \in cmds /\ calls[k].res = res

AnyIssued(cmds) == \E k \in 1..Len(calls) : calls[k].cmd \in cmds

InDestination(u) == \E c \in copies : c[2] = u /\ c[1] # s_INBOX

\* move_email has been entered for u without dry_run
Relocating(u) == Issued(u, {"SELECT"})

Terminal == pc \in {"done", "raised"}

TopLabel(u) == modified_labels(labels, prefix)[top[u]]

----------------------------------------------------------------------------
(* C1 *)

\* C1: under the copy-then-delete move, a message whose relocation has begun
\* is, in every state of the run, in the source inbox or in a destination
\* mailbox (possibly in both), never in neither.
C1_NeverInNeither ==
    \A u \in UIDs : Relocating(u) => (u \in inbox \/ InDestination(u))

\* C1 witness: the copy succeeded, the store failed, move_email returned and
\* the message is in both mailboxes.
C1_Witness_InBoth ==
    \E u \in UIDs :
        /\ outcome[u] = "Moved"
        /\ IssuedWith(u, {"STORE"}, "NO")
        /\ u \in inbox
        /\ <<target[u], u>> \in copies

----------------------------------------------------------------------------
(* C2 *)

\* C2: a COPY that returns a failure status ends the relocation as
\* CopyFailed: the exception is raised in that very step, the source mailbox
\* and its flags are as before the call, and no STORE or EXPUNGE is ever
\* issued for the message (the failed COPY stays the last command sent).
C2_CopyFailureAborts ==
    [][ /\ ( /\ pc = "copy"
             /\ Len(calls') = Len(calls) + 1
             /\ calls'[Len(calls')].res = "NO" )
           => /\ pc' = "raised"
              /\ err' = "CopyFailed"
              /\ outcome'[cur] = "CopyFailed"
              /\ inbox' = inbox
              /\ flagged' = flagged
              /\ copies' = copies
        /\ \A k \in 1..Len(calls') :
              (calls'[k].cmd = "COPY" /\ calls'[k].res = "NO")
                 => /\ k = Len(calls')
                    /\ ~(\E j \in 1..Len(calls') :
                            /\ calls'[j].uid = calls'[k].uid
                            /\ calls'[j].cmd \in {"STORE", "EXPUNGE"})
      ]_vars

\* C2 witness: the run ended on a failed COPY of a message that is still in
\* the inbox.
C2_Witness_CopyFailed ==
    \E u \in UIDs :
        /\ pc = "raised"
        /\ err = "CopyFailed"
        /\ IssuedWith(u, {"COPY"}, "NO")
        /\ u \in inbox

----------------------------------------------------------------------------
(* C3 *)

----------------------------------------------------------------------------
(* C4 *)

\* C4: with dry_run set no copy, store, expunge or append is ever issued,
\* and every decision other than the inbox is printed with its UID, source
\* and destination once move_email has run for it.
C4_DryRunNoMutation ==
    dry_run =>
        /\ ~AnyIssued(Mutating)
        /\ copies = {}
        /\ \A u \in UIDs :
              ( /\ target[u] # NoneVal
                /\ target[u] # s_INBOX
                /\ ~(pc = "move" /\ cur = u) )
                 => InSeq(Line("DryRun", u, s_INBOX, target[u]), out)

\* C4 witness: a dry run finished after deciding to move a message.
C4_Witness_DryDecision ==
    /\ dry_run
    /\ pc = "done"
    /\ \E u \in UIDs :
          /\ target[u] \notin {NoneVal, s_INBOX}
          /\ InSeq(Line("DryRun", u, s_INBOX, target[u]), out)

----------------------------------------------------------------------------
(* C5 *)

\* C5: when the oracle's top-ranked label for a message is the string
\* `other`, classify_email returns the sentinel INBOX, the iteration ends as
\* Skipped, no command at all is sent for it after its fetch, and the step
\* leaves the inbox, its flags and every destination as they were.
C5_OtherIsSkipped ==
    [][ /\ ( /\ pc = "classify"
             /\ top'[cur] # 0
             /\ modified_labels(labels, prefix)[top'[cur]] = s_other )
           => /\ target'[cur] = s_INBOX
              /\ outcome'[cur] = "Skipped"
              /\ calls' = calls
              /\ inbox' = inbox
              /\ flagged' = flagged
              /\ copies' = copies
        /\ \A u \in UIDs :
              (top'[u] # 0 /\ modified_labels(labels', prefix')[top'[u]] = s_other)
                 => /\ outcome'[u] = "Skipped"
                    /\ ~(\E k \in 1..Len(calls') :
                            /\ calls'[k].uid = u
                            /\ calls'[k].cmd \in Mutating \cup {"SELECT"})
      ]_vars

\* C5 witness: a real run ended after the oracle had answered `other` for
\* a message, which is still in the inbox.
C5_Witness_OtherSkipped ==
    \E u \in UIDs :
        /\ ~dry_run
        /\ pc = "done"
        /\ top[u] # 0
        /\ TopLabel(u) = s_other
        /\ outcome[u] = "Skipped"
        /\ u \in inbox

----------------------------------------------------------------------------
(* C6 *)

PerMessageErrors == {"FetchError", "ClassificationError", "CopyFailed"}

\* C6: a per-message error (failed fetch, classification error, CopyFailed)
\* does not abort the traversal: the run is never ended by the error of one
\* message, so the later UIDs are still processed.
C6_PerMessageErrorContinues ==
    \A u \in UIDs : outcome[u] \in PerMessageErrors => pc # "raised"

----------------------------------------------------------------------------
(* C7 *)

\* The search itself failed: by its status, or refused by imaplib because
\* the select before it failed.
SearchItselfFailed ==
    \/ IssuedWith(0, {"SEARCH"}, "NO")
    \/ (err = "imaplib.error" /\ ~AnyIssued({"SEARCH"}))

AllProcessed == AnyIssued({"SEARCH"}) /\ i > Len(uids)

\* C7: a failed search ends the run with no fetch, copy, store or expunge
\* and no classification, and after a successful discovery a failed search
\* is the only thing that ends the run before all UIDs are processed.
C7_SearchFailureOnlyFatal ==
    /\ SearchItselfFailed =>
          /\ Terminal
          /\ ~AnyIssued({"FETCH", "COPY", "STORE", "EXPUNGE"})
          /\ \A u \in UIDs : top[u] = 0 /\ outcome[u] = "none"
    /\ (Terminal /\ labels # <<>> /\ ~AllProcessed) => SearchItselfFailed

----------------------------------------------------------------------------
(* C8 *)

\* C8: when no mailbox is left after the reserved-word and prefix filters,
\* discovery raises in that step, with LIST the only command sent and the
\* mailboxes untouched, and the run is over: no step follows a raise, so no
\* select, search, fetch or move.
C8_EmptyDiscoveryAborts ==
    [][ /\ pc # "raised"
        /\ (pc = "get_mailboxes" /\ FilterListing(listing, prefix) = <<>>)
              => /\ pc' = "raised"
                 /\ err' \in {"NoMailboxesFound", "AttributeError"}
                 /\ (listing # <<>> => err' = "NoMailboxesFound")
                 /\ labels' = <<>>
                 /\ \A k \in 1..Len(calls') : calls'[k].cmd = "LIST"
                 /\ state' = "AUTH"
                 /\ inbox' = inbox
                 /\ flagged' = flagged
                 /\ copies' = copies
      ]_vars

\* C8 witness: a listing with entries, all filtered away, ended the run.
C8_Witness_NoMailboxes ==
    /\ listing # <<>>
    /\ inbox # {}
    /\ pc = "raised"
    /\ err = "NoMailboxesFound"

----------------------------------------------------------------------------
(* C9 *)

\* C9: for every label M of the label set that starts with the non-empty
\* prefix, when the oracle's top label is M with the prefix stripped,
\* classify_email returns exactly M.
C9_StripRestoreRoundTrip ==
    \A u \in UIDs : \A j \in 1..Len(labels) :
        ( /\ prefix # <<>>
          /\ top[u] # 0
          /\ StartsWith(labels[j], prefix)
          /\ TopLabel(u) = SubSeq(labels[j], Len(prefix) + 1, Len(labels[j])) )
           => target[u] = labels[j]

----------------------------------------------------------------------------
(* C10 *)

\* C10: the candidates given to the oracle are pairwise distinct, and
\* classify_email returns the sentinel INBOX only when the top candidate is
\* the synthetic fallback entry, the last of the label set.
C10_LabelsMapBackUniquely ==
    /\ \A j, k \in 1..Len(labels) :
          j # k => modified_labels(labels, prefix)[j] # modified_labels(labels, prefix)[k]
    /\ \A u \in UIDs : target[u] = s_INBOX => top[u] = Len(labels)

----------------------------------------------------------------------------
(* C11 *)

\* C11: whatever the LIST answer, the label set built by discovery holds
\* exactly one `other` entry and no label twice.
C11_OneOtherNoDuplicates ==
    labels # <<>> =>
        /\ Cardinality({k \in 1..Len(labels) : labels[k] = s_other}) = 1
        /\ \A j, k \in 1..Len(labels) : j # k => labels[j] # labels[k]

----------------------------------------------------------------------------
(* C12 *)

\* A reserved word occurs in the name, letter case set aside.
HasReservedWord(name) ==
    \E w \in ReservedWords : \E k \in 0..(Len(name) - Len(w)) :
        \A j \in 1..Len(w) : Lower(name[k + j]) = w[j]

\* The name begins with the prefix, letter case set aside.
BeginsWithPrefix(name, pfx) ==
    /\ Len(pfx) <= Len(name)
    /\ \A j \in 1..Len(pfx) : Lower(name[j]) = Lower(pfx[j])

Discovered == { labels[k] : k \in 1..(Len(labels) - 1) }

\* C12: no name holding one of archive, sent, drafts, trash, bin, deleted,
\* flagged (in any letter case) is among the discovered labels, and with a
\* prefix set none that does not begin with it (in any letter case); so the
\* folder classify_email returns is never such a name.
C12_ReservedNeverLabel ==
    /\ \A name \in Discovered :
          /\ ~HasReservedWord(name)
          /\ prefix # <<>> => BeginsWithPrefix(name, prefix)
    /\ \A u \in UIDs :
          target[u] # NoneVal =>
              /\ ~HasReservedWord(target[u])
              /\ target[u] \in Discovered \cup {s_other, s_INBOX}

\* C12 witness: the LIST answer named Archive24 or Sent next to a mailbox
\* that was kept, and a kept mailbox was chosen as the destination.
C12_Witness_ReservedDropped ==
    /\ pc = "chosen"
    /\ \E k \in 1..Len(listing) :
          listing[k] \in {Entry(Quoted(s_Archive24)), Entry(Quoted(s_Sent)),
                          Entry(Quoted(s_cabin))}
    /\ target[1] \in Discovered
    /\ target[1] # s_INBOX

----------------------------------------------------------------------------
(* C13 *)

NoText(t) == t = NoneVal \/ t = <<>>

\* The text the fallback order asks for: the full extraction, else the
\* subject, else the decoded top-level payload.
FallbackOrderText(m) ==
    IF ~NoText(extract_text_from_part(m.root)) THEN extract_text_from_part(m.root)
    ELSE IF ~NoText(m.subject) THEN m.subject
    ELSE Decode(m.root.body)

\* C13: the text handed to the classifier is the full recursive extraction
\* when that is not empty, else the subject when that is not empty, else the
\* directly decoded top-level payload, for single-part and multipart
\* messages alike.
C13_FallbackOrder ==
    pc = "classify" => content = FallbackOrderText(msg)

----------------------------------------------------------------------------
(* C14 *)

\* C14: for every message the extraction step ends with a string, possibly
\* empty, for the classifier: it never raises and never hands over None.
C14_ExtractionTotal ==
    pc # "parsed" => (pc = "classify" /\ content # NoneVal)

----------------------------------------------------------------------------
(* C15 *)

\* The leaves of the tree in document order, each with whether it or a part
\* above it is marked as attachment.
RECURSIVE LeafList(_, _)
RECURSIVE LeafListFrom(_, _, _)

LeafListFrom(parts, k, blocked) ==
    IF k > Len(parts) THEN <<>>
    ELSE LeafList(parts[k], blocked) \o LeafListFrom(parts, k + 1, blocked)

LeafList(part, blocked) ==
    IF part.multipart
    THEN LeafListFrom(part.parts, 1, blocked \/ part.attach)
    ELSE << [leaf |-> part, blocked |-> blocked \/ part.attach] >>

RECURSIVE TextOfLeaves(_)
TextOfLeaves(ls) ==
    IF ls = <<>> THEN <<>>
    ELSE LET h == Head(ls)
         IN  (IF ~h.blocked /\ h.leaf.ctype \in {"text/plain", "text/html"}
              THEN Decode(h.leaf.body) ELSE <<>>) \o TextOfLeaves(Tail(ls))

\* C15: extract_text_from_part returns the decoded content of the
\* text/plain and text/html leaves that are neither marked as attachment nor
\* under a part so marked, joined in depth-first document order; every other
\* leaf adds nothing.
C15_ExtractIsTextLeaves ==
    extracted # NoneVal => extracted = TextOfLeaves(LeafList(msg.root, FALSE))

\* C15 witness: a container with an attachment and text parts gave the text
\* of the text parts only, in their order.
C15_Witness_AttachmentDropped ==
    /\ pc = "classify"
    /\ msg.root.multipart
    /\ Len(msg.root.parts) = 2
    /\ msg.root.parts[1].attach
    /\ msg.root.parts[2].multipart
    /\ extracted = <<"b", "a">>

----------------------------------------------------------------------------
(* C16 *)

\* The search succeeded on an inbox that held no message: the inbox is empty
\* and no copy was ever made (a message leaves the inbox only after a COPY).
EmptySearch == IssuedWith(0, {"SEARCH"}, "OK") /\ inbox = {} /\ copies = {}

\* C16: when the search returns no UID the run sends no fetch, classifies
\* nothing and relocates nothing: no SELECT of move_email, no COPY, STORE or
\* EXPUNGE, no copy in any mailbox, and the run ends without error.
C16_EmptyInboxNoWork ==
    EmptySearch =>
        /\ uids = <<>>
        /\ ~AnyIssued({"FETCH", "COPY", "STORE", "EXPUNGE"})
        /\ \A k \in 1..Len(calls) : calls[k].uid = 0
        /\ \A u \in UIDs : top[u] = 0 /\ target[u] = NoneVal /\ outcome[u] = "none"
        /\ flagged = {}
        /\ pc \in {"fetch", "done"}
        /\ err = "none"

\* C16 witness: a run over an empty inbox finished.
C16_Witness_EmptyRunDone ==
    /\ EmptySearch
    /\ pc = "done"
    /\ AnyIssued({"LOGOUT"})

----------------------------------------------------------------------------
(* C17 *)

UidCommands == {"SEARCH", "FETCH", "COPY", "STORE", "EXPUNGE"}

Selects(cs) == { k \in 1..Len(cs) : cs[k].cmd = "SELECT" }

\* The command sent in this step, if one is sent
Sent(c) == Len(calls') = Len(calls) + 1 /\ c = calls'[Len(calls')]

\* C17: whenever a search, fetch, COPY, STORE or EXPUNGE is sent, the
\* connection is in the selected state and the latest select before it
\* succeeded and named the inbox.
C17_CommandsUnderInboxSelect ==
    [][ \A c \in {calls'[Len(calls')]} :
          (Sent(c) /\ c.cmd \in UidCommands)
             => /\ state = "SELECTED"
                /\ Selects(calls) # {}
                /\ LET k == SetMax(Selects(calls))
                   IN  /\ calls[k].res = "OK"
                       /\ LowerStr(calls[k].arg) = s_inbox
      ]_vars

\* C17 witness: a relocation ran to its end, each of its commands under the
\* select of move_email.
C17_Witness_MovedUnderSelect ==
    \E u \in UIDs :
        /\ outcome[u] = "Moved"
        /\ IssuedWith(u, {"SELECT"}, "OK")
        /\ IssuedWith(u, {"EXPUNGE"}, "OK")

----------------------------------------------------------------------------
(* C18 *)

\* C18 as stated: a message of the search result is gone from the inbox only
\* after a COPY of that same UID succeeded.
C18_OnlyCopiedLeaves ==
    \A k \in 1..Len(uids) :
        uids[k] \notin inbox => IssuedWith(uids[k], {"COPY"}, "OK")

\* C18 amended: a message leaves the inbox only in the EXPUNGE step of a
\* relocation whose COPY succeeded, and only if it carries \Deleted; the run
\* sets \Deleted only on the UID whose COPY just succeeded. So a message
\* that does not carry \Deleted stays, and one that carries it already is
\* removed with the relocated one.
C18_ExpungeRemovesFlagged ==
    [][ /\ inbox' \subseteq inbox
        /\ \A u \in inbox \ inbox' :
              /\ pc = "expunge"
              /\ u \in flagged
              /\ IssuedWith(cur, {"COPY"}, "OK")
        /\ \A u \in flagged' \ flagged :
              /\ pc = "store"
              /\ u = cur
              /\ IssuedWith(u, {"COPY"}, "OK")
      ]_vars

\* C18 witness: a message that carried \Deleted is gone without any COPY of
\* it, removed by the EXPUNGE of another message's relocation.
C18_Witness_FlaggedRemoved ==
    \E u, v \in UIDs :
        /\ u # v
        /\ outcome[v] = "Moved"
        /\ v \notin inbox
        /\ InSeq(u, uids)
        /\ u \notin inbox
        /\ ~Issued(u, {"COPY"})

----------------------------------------------------------------------------
(* C19 *)

CountOf(cs, cmds) == Cardinality({ k \in 1..Len(cs) : cs[k].cmd \in cmds })

Fetches(cs) == { k \in 1..Len(cs) : cs[k].cmd = "FETCH" }

\* C19: the search is sent once, before any fetch, and its result holds each
\* inbox UID once; the k-th fetch is for the k-th UID of the result; every
\* command of a relocation is for the UID fetched last and is sent once per
\* UID; and the run logs out only after as many fetches as UIDs.
C19_EachUidOnceInOrder ==
    [][ \A c \in {calls'[Len(calls')]} :
          Sent(c) =>
            /\ c.cmd = "SEARCH" =>
                  /\ CountOf(calls, {"SEARCH", "FETCH"}) = 0
                  /\ c.res = "OK" =>
                        /\ \A j, k \in 1..Len(uids') : j # k => uids'[j] # uids'[k]
                        /\ { uids'[k] : k \in 1..Len(uids') } = inbox
            /\ c.cmd = "FETCH" =>
                  /\ CountOf(calls, {"SEARCH"}) = 1
                  /\ CountOf(calls, {"FETCH"}) < Len(uids)
                  /\ c.uid = uids[CountOf(calls, {"FETCH"}) + 1]
            /\ (c.uid # 0 /\ c.cmd \in {"SELECT", "COPY", "STORE", "EXPUNGE"}) =>
                  /\ Fetches(calls) # {}
                  /\ c.uid = calls[SetMax(Fetches(calls))].uid
                  /\ calls[SetMax(Fetches(calls))].res = "OK"
                  /\ c.uid \in inbox
                  /\ ~(\E k \in 1..Len(calls) :
                          calls[k].cmd = c.cmd /\ calls[k].uid = c.uid)
            /\ c.cmd = "LOGOUT" => CountOf(calls, {"FETCH"}) = Len(uids)
      ]_vars

\* C19 witness: two messages were relocated one after the other and the run
\* logged out.
C19_Witness_TwoMovedInOrder ==
    /\ pc = "done"
    /\ Len(uids) = 2
    /\ outcome[uids[1]] = "Moved"
    /\ outcome[uids[2]] = "Moved"
    /\ uids[1] \notin inbox
    /\ uids[2] \notin inbox

----------------------------------------------------------------------------
(* C20 *)

\* C20: after a discovery that did not fail, every discovered name is the
\* last token of a line of the LIST answer, quoted or not, never the
\* hierarchy delimiter or an attribute.
C20_NameIsLastToken ==
    (pc \in {"select", "chosen"} /\ err = "none") =>
        \A name \in Discovered :
            \E k \in 1..Len(listing) : name = ServerName(listing[k])

====
